---- MODULE Spec2Model ----
(***************************************************************************)
(* A model of preservationist's identification module: extraction of one   *)
(* Song per file (_parse_song), aggregation of a folder into an Album      *)
(* (_parse_album, Album.add), the Album's derived properties and its three *)
(* message chains, and diagnose's reporting of the album.                  *)
(*                                                                         *)
(* Python strings that the code sorts, lower-cases or searches are         *)
(* sequences of one-character strings; Str turns such a sequence into the  *)
(* TLA+ string of the same characters.  An optional value (None or a       *)
(* value) is a sequence of length 0 or 1: None is <<>>, the value v is     *)
(* <<v>>.                                                                  *)
(***************************************************************************)
EXTENDS Naturals, Sequences, FiniteSets, TLC

VARIABLES
    pc,        \* where diagnose / the Album client / the reduction stands
    output_file, verbose,   \* diagnose's arguments
    listing,   \* the file names of the folder consumed by _parse_album, in sorted order
    album,     \* the Album object: songs, erroneous, _purchased_by
    raised,    \* the exception that left the running function, "" when none
    output,    \* what diagnose wrote: CSV rows or printed lines
    lastRead,  \* the latest read of a derived Album property: its name and value
    values,    \* the argument of _unique_value_or_mixed
    result     \* its return value, as an optional

vars == <<pc, output_file, verbose, listing, album, raised, output, lastRead, values, result>>

----------------------------------------------------------------------------
(* Strings *)

None == <<>>

Some(v) == <<v>>

\* Python truthiness of an optional string: neither None nor "".
Truthy(o) == o # None /\ o[1] # <<>>

\* Python's  x or default  for an optional string x.
OrElse(o, default) == IF Truthy(o) THEN o[1] ELSE default

\* The characters the model's strings are made of, in code point order.
AsciiOrder ==
    << " ", "&", "'", ",", ".", "/", "0", "1", "2", "3", "4", "5", "6", "7", "8", "9", ":",
       "A", "B", "C", "D", "E", "F", "G", "H", "I", "J", "K", "L", "M",
       "N", "O", "P", "Q", "R", "S", "T", "U", "V", "W", "X", "Y", "Z",
       "[", "]",
       "a", "b", "c", "d", "e", "f", "g", "h", "i", "j", "k", "l", "m",
       "n", "o", "p", "q", "r", "s", "t", "u", "v", "w", "x", "y", "z" >>

Chars == {AsciiOrder[i] : i \in 1..Len(AsciiOrder)}

Ord == [c \in Chars |-> CHOOSE i \in 1..Len(AsciiOrder) : AsciiOrder[i] = c]

UpperCase == <<"A", "B", "C", "D", "E", "F", "G", "H", "I", "J", "K", "L", "M",
               "N", "O", "P", "Q", "R", "S", "T", "U", "V", "W", "X", "Y", "Z">>

LowerCase == <<"a", "b", "c", "d", "e", "f", "g", "h", "i", "j", "k", "l", "m",
               "n", "o", "p", "q", "r", "s", "t", "u", "v", "w", "x", "y", "z">>

LowerChar == [c \in Chars |->
                IF \E i \in 1..Len(UpperCase) : UpperCase[i] = c
                THEN LowerCase[CHOOSE i \in 1..Len(UpperCase) : UpperCase[i] = c]
                ELSE c]

\* str.lower()
Lower(s) == [i \in 1..Len(s) |-> LowerChar[s[i]]]

\* str.startswith(prefix)
StartsWith(s, prefix) == Len(prefix) <= Len(s) /\ SubSeq(s, 1, Len(prefix)) = prefix

\* sub in s, for strings
Contains(s, sub) ==
    Len(sub) <= Len(s) /\ \E i \in 0..(Len(s) - Len(sub)) : SubSeq(s, i + 1, i + Len(sub)) = sub

\* s < t in Python's order of strings: by code point, a proper prefix first.
RECURSIVE StrLess(_, _)
StrLess(s, t) ==
    IF t = <<>> THEN FALSE
    ELSE IF s = <<>> THEN TRUE
    ELSE IF s[1] # t[1] THEN Ord[s[1]] < Ord[t[1]]
    ELSE StrLess(Tail(s), Tail(t))

\* sorted(set) of strings
RECURSIVE Sorted(_)
Sorted(S) ==
    IF S = {} THEN <<>>
    ELSE LET m == CHOOSE x \in S : \A y \in S \ {x} : StrLess(x, y)
         IN  <<m>> \o Sorted(S \ {m})

\* sep.join(list)
RECURSIVE Join(_, _)
Join(sep, list) ==
    IF list = <<>> THEN <<>>
    ELSE IF Len(list) = 1 THEN list[1]
    ELSE list[1] \o sep \o Join(sep, Tail(list))

CommaSpace == <<",", " ">>

\* The TLA+ string of a character sequence.
RECURSIVE Str(_)
Str(s) == IF s = <<>> THEN "" ELSE s[1] \o Str(Tail(s))

Range(f) == {f[i] : i \in DOMAIN f}

----------------------------------------------------------------------------
(* Constants of identification.py *)

MIXED == <<"[", "M", "i", "x", "e", "d", "]">>

NoneLabel == <<"[", "N", "o", "n", "e", "]">>

max_length == 100

VariousArtists == <<"V", "a", "r", "i", "o", "u", "s", " ", "A", "r", "t", "i", "s", "t", "s">>

\* IMAGE_SIZES
IMAGE_SIZES == {<<600, 600>>, <<1400, 1400>>}

\* ImageFormat
UNKNOWN == "UNKNOWN"
PNG == "PNG"
JPEG == "JPEG"

----------------------------------------------------------------------------
(* The reductions *)

\* _unique_value_or_mixed(values): values is a list of optional strings.
_unique_value_or_mixed(vals) ==
    LET temp == Range(vals)
    IN  IF temp = {} THEN <<>>
        ELSE IF Cardinality(temp) = 1 THEN OrElse(CHOOSE v \in temp : TRUE, <<>>)
        ELSE MIXED

\* s[:n]
Truncate(s, n) == SubSeq(s, 1, IF Len(s) < n THEN Len(s) ELSE n)

\* _unique_values(songs, getter): got is the list getter(song) for song in songs.
_unique_values(got) ==
    Truncate(Join(CommaSpace, Sorted({OrElse(got[i], NoneLabel) : i \in DOMAIN got})), max_length)

----------------------------------------------------------------------------
(* Paths *)

Slash == <<"/">>

\* The highest index of character c in s, 0 when there is none (str.rfind + 1).
RECURSIVE RFind(_, _)
RFind(s, c) ==
    IF s = <<>> THEN 0
    ELSE IF s[Len(s)] = c THEN Len(s)
    ELSE RFind(SubSeq(s, 1, Len(s) - 1), c)

\* os.path.join(subdir, file)
PathJoin(subdir, file) == subdir \o Slash \o file

\* Path(p).name: the last component.
PathName(p) == SubSeq(p, RFind(p, "/") + 1, Len(p))

\* Path(p).suffix: from the last dot of the name, when that dot is neither the
\* name's first nor its last character.
Suffix(p) ==
    LET name == PathName(p)
        j == RFind(name, ".")
    IN  IF 1 < j /\ j < Len(name) THEN SubSeq(name, j, Len(name)) ELSE <<>>

\* Path(subdir).absolute().parts[-2:], for a subdir of at least two components.
ParentName(p) == PathName(SubSeq(p, 1, RFind(p, "/") - 1))

----------------------------------------------------------------------------
(* Song, Artwork *)

\* Song(file_name)
Song(file_name) ==
    [ file_name |-> file_name,
      purchased_by |-> None,
      album_artist |-> None,
      artist |-> None,
      album |-> None,
      sort_album_artist |-> None,
      sort_artist |-> None,
      sort_album |-> None,
      compilation |-> FALSE,
      covers |-> <<>>,
      error |-> None ]

\* Song.file_type (the memo _file_type holds the same suffix: file_name never changes)
song_file_type(song) == Suffix(song.file_name)

\* Song.has_cover
has_cover(song) == song.covers # <<>>

\* Artwork(image_format, contents, width, height)
Artwork(image_format, contents, width, height) ==
    [image_format |-> image_format, contents |-> contents, width |-> width, height |-> height]

\* The outcome of a function that may raise: its value, or the exception.
Ok(v) == [exc |-> "", val |-> v]

Raise(e) == [exc |-> e, val |-> ""]

----------------------------------------------------------------------------
(* Album *)

\* Album(artist_folder, album_folder)
Album(artist_folder, album_folder) ==
    [ artist_folder |-> artist_folder,
      album_folder |-> album_folder,
      songs |-> <<>>,
      erroneous |-> <<>>,
      _purchased_by |-> None ]

\* Album.add with the else lost: an erroneous song is appended to songs as well.
add_without_else(a, song) ==
    IF Truthy(song.error)
    THEN [a EXCEPT !.erroneous = Append(@, song), !.songs = Append(@, song)]
    ELSE [a EXCEPT !.songs = Append(@, song)]

\* Album.add(song): the album after the call.
add(a, song) ==
    IF Truthy(song.error)
    THEN [a EXCEPT !.erroneous = Append(@, song)]
    ELSE [a EXCEPT !.songs = Append(@, song)]

\* Album.__len__
len(a) == Len(a.songs)

\* set(song.purchased_by for song in self.songs if song.purchased_by is not None)
PurchasersOf(songs) ==
    {songs[i].purchased_by[1] : i \in {j \in DOMAIN songs : songs[j].purchased_by # None}}

\* Album.purchased_by: the value the read returns ...
purchased_by(a) ==
    IF a._purchased_by = None THEN PurchasersOf(a.songs) ELSE a._purchased_by[1]

\* ... and the album after the read, with the memo filled in.
AfterPurchasedBy(a) ==
    IF a._purchased_by = None
    THEN [a EXCEPT !._purchased_by = Some(PurchasersOf(a.songs))]
    ELSE a

\* Album.album_artist
album_artist(a) == _unique_value_or_mixed([i \in DOMAIN a.songs |-> a.songs[i].album_artist])

\* Album.artist
artist(a) == _unique_value_or_mixed([i \in DOMAIN a.songs |-> a.songs[i].artist])

\* Album.name
name(a) == _unique_value_or_mixed([i \in DOMAIN a.songs |-> a.songs[i].album])

\* Album.sort_album_artist
sort_album_artist(a) ==
    _unique_value_or_mixed([i \in DOMAIN a.songs |-> a.songs[i].sort_album_artist])

\* Album.sort_artist
sort_artist(a) == _unique_value_or_mixed([i \in DOMAIN a.songs |-> a.songs[i].sort_artist])

\* Album.sort_album
sort_album(a) == _unique_value_or_mixed([i \in DOMAIN a.songs |-> a.songs[i].sort_album])

\* str(bool)
StrBool(b) == IF b THEN <<"T", "r", "u", "e">> ELSE <<"F", "a", "l", "s", "e">>

\* Album.compilation
compilation(a) ==
    LET temp == _unique_value_or_mixed(
                    [i \in DOMAIN a.songs |-> Some(StrBool(a.songs[i].compilation))])
    IN  IF temp = <<>> THEN StrBool(FALSE) ELSE temp

\* Album.file_type
file_type(a) ==
    LET all == a.songs \o a.erroneous
    IN  _unique_value_or_mixed([i \in DOMAIN all |-> Some(song_file_type(all[i]))])

\* _is_video(file_type)
_is_video(ft) ==
    ft \in { <<".", "m", "o", "v">>, <<".", "m", "4", "v">>, <<".", "m", "p", "e", "g">>,
             <<".", "m", "p", "g">>, <<".", "m", "p", "4">> }

\* Album.file_message
file_message(a) ==
    IF a.songs = <<>> /\ \A i \in DOMAIN a.erroneous : _is_video(song_file_type(a.erroneous[i]))
    THEN ""
    ELSE IF a.erroneous # <<>>
    THEN Str(Join(CommaSpace, Sorted({a.erroneous[i].error[1] : i \in DOMAIN a.erroneous})))
    ELSE IF a.songs = <<>>
    THEN "Empty album"
    ELSE IF file_type(a) = MIXED
    THEN "Mixed file type: "
            \o Str(_unique_values([i \in DOMAIN a.songs |-> Some(song_file_type(a.songs[i]))]))
    ELSE ""

\* Album.artwork_message with the format test moved before the content test.
artwork_message_format_first(a) ==
    LET songs == a.songs
        first(i) == songs[i].covers[1]
    IN  IF songs = <<>> THEN ""
        ELSE IF \A i \in DOMAIN songs : ~has_cover(songs[i]) THEN "No artwork"
        ELSE IF ~ \A i \in DOMAIN songs : has_cover(songs[i]) THEN "Some artwork missing"
        ELSE IF ~ \A i \in DOMAIN songs : Len(songs[i].covers) = 1
        THEN "Multiple covers per file"
        ELSE IF Cardinality({first(i).image_format : i \in DOMAIN songs}) > 1
        THEN "Multiple image formats"
        ELSE IF Cardinality({first(i).contents : i \in DOMAIN songs}) > 1 THEN "Multiple covers"
        ELSE IF \E i \in DOMAIN songs : first(i).image_format = PNG THEN "PNG artwork"
        ELSE IF \E i \in DOMAIN songs : first(i).image_format = UNKNOWN
        THEN "Unknown artwork format"
        ELSE IF \E i \in DOMAIN songs : <<first(i).width, first(i).height>> \notin IMAGE_SIZES
        THEN "Bad artwork size"
        ELSE ""

\* Album.artwork_message
artwork_message(a) ==
    LET songs == a.songs
        first(i) == songs[i].covers[1]
    IN  IF songs = <<>> THEN ""
        ELSE IF \A i \in DOMAIN songs : ~has_cover(songs[i]) THEN "No artwork"
        ELSE IF ~ \A i \in DOMAIN songs : has_cover(songs[i]) THEN "Some artwork missing"
        ELSE IF ~ \A i \in DOMAIN songs : Len(songs[i].covers) = 1
        THEN "Multiple covers per file"
        ELSE IF Cardinality({first(i).contents : i \in DOMAIN songs}) > 1 THEN "Multiple covers"
        ELSE IF Cardinality({first(i).image_format : i \in DOMAIN songs}) > 1
        THEN "Multiple image formats"
        ELSE IF \E i \in DOMAIN songs : first(i).image_format = PNG THEN "PNG artwork"
        ELSE IF \E i \in DOMAIN songs : first(i).image_format = UNKNOWN
        THEN "Unknown artwork format"
        ELSE IF \E i \in DOMAIN songs : <<first(i).width, first(i).height>> \notin IMAGE_SIZES
        THEN "Bad artwork size"
        ELSE ""

Digits == <<"0", "1", "2", "3", "4", "5", "6", "7", "8", "9">>

\* str(n) for a natural number
RECURSIVE StrInt(_)
StrInt(n) == IF n < 10 THEN <<Digits[n + 1]>> ELSE StrInt(n \div 10) \o <<Digits[(n % 10) + 1]>>

\* f"{width}x{height}"
SizeLabel(cover) == StrInt(cover.width) \o <<"x">> \o StrInt(cover.height)

\* Album.artwork_size with the sizes collected in a list, not a set.
artwork_size_from_list(a) ==
    LET sizes == [k \in 1..Cardinality({j \in DOMAIN a.songs : Len(a.songs[j].covers) # 0})
                    |-> SizeLabel(a.songs[CHOOSE j \in DOMAIN a.songs :
                            /\ Len(a.songs[j].covers) # 0
                            /\ Cardinality({i \in 1..j : Len(a.songs[i].covers) # 0}) = k].covers[1])]
    IN  IF sizes = <<>> THEN <<>>
        ELSE IF Len(sizes) = 1 THEN sizes[1]
        ELSE MIXED

\* Album.artwork_size
artwork_size(a) ==
    LET sizes == {SizeLabel(a.songs[i].covers[1]) :
                    i \in {j \in DOMAIN a.songs : Len(a.songs[j].covers) # 0}}
    IN  IF sizes = {} THEN <<>>
        ELSE IF Cardinality(sizes) = 1 THEN CHOOSE x \in sizes : TRUE
        ELSE MIXED

\* all(song.artist.startswith(album_artist) for song in songs): "True", "False", or the
\* exception of the first song reached whose artist is None.
RECURSIVE AllStartWith(_, _)
AllStartWith(songs, prefix) ==
    IF songs = <<>> THEN "True"
    ELSE IF songs[1].artist = None THEN "AttributeError"
    ELSE IF ~StartsWith(songs[1].artist[1], prefix) THEN "False"
    ELSE AllStartWith(Tail(songs), prefix)

\* all(song.artist in album_artist for song in songs), likewise.
RECURSIVE AllContained(_, _)
AllContained(songs, whole) ==
    IF songs = <<>> THEN "True"
    ELSE IF songs[1].artist = None THEN "TypeError"
    ELSE IF ~Contains(whole, songs[1].artist[1]) THEN "False"
    ELSE AllContained(Tail(songs), whole)

\* x.lower() if x else None
LowerOrNone(o) == IF Truthy(o) THEN Some(Lower(o[1])) ELSE None

\* The tail of Album.naming_message, from "if self.name == MIXED" on.
NamingTail(a) ==
    LET songs == a.songs
    IN  IF name(a) = MIXED
        THEN "Mixed album: " \o Str(_unique_values([i \in DOMAIN songs |-> songs[i].album]))
        ELSE IF sort_album(a) = MIXED
        THEN "Mixed sort album: "
                \o Str(_unique_values([i \in DOMAIN songs |-> songs[i].sort_album]))
        ELSE IF album_artist(a) = MIXED
        THEN "Mixed album artist: "
                \o Str(_unique_values([i \in DOMAIN songs |-> songs[i].album_artist]))
        ELSE IF sort_album_artist(a) = MIXED
        THEN "Mixed sort album artist: "
                \o Str(_unique_values([i \in DOMAIN songs |-> songs[i].sort_album_artist]))
        ELSE IF album_artist(a) = <<>>
        THEN "No album artist"
        ELSE ""

\* album_artist_lower of Album.naming_message
album_artist_lower(a) ==
    _unique_value_or_mixed([i \in DOMAIN a.songs |-> LowerOrNone(a.songs[i].album_artist)])

\* artist_lower of Album.naming_message
artist_lower(a) ==
    _unique_value_or_mixed([i \in DOMAIN a.songs |-> LowerOrNone(a.songs[i].artist)])

\* Album.naming_message: Ok(message), or the exception it raises.
naming_message(a) ==
    LET songs == a.songs
        starts == AllStartWith(songs, album_artist(a))
        within == AllContained(songs, album_artist(a))
    IN  IF songs = <<>> THEN Ok("")
        ELSE IF compilation(a) = MIXED THEN Ok("Some set as compilation")
        ELSE IF compilation(a) = StrBool(TRUE) /\ album_artist(a) # VariousArtists
        THEN Ok("Unexpected album artist for compilation: "
                    \o Str(_unique_values([i \in DOMAIN songs |-> songs[i].album_artist])))
        ELSE IF compilation(a) = StrBool(TRUE) /\ len(a) > 1 /\ artist(a) # MIXED
        THEN Ok("Expected multiple artists for compilation")
        ELSE IF compilation(a) = StrBool(FALSE) /\ album_artist(a) = VariousArtists
        THEN Ok("Unexpected album artist for non-compilation")
        ELSE IF album_artist(a) = MIXED /\ album_artist_lower(a) # MIXED
        THEN Ok("Artist differs by case only: "
                    \o Str(_unique_values([i \in DOMAIN songs |-> songs[i].album_artist])))
        ELSE IF artist(a) = MIXED /\ artist_lower(a) # MIXED
        THEN Ok("Album artist differs by case only: "
                    \o Str(_unique_values([i \in DOMAIN songs |-> songs[i].artist])))
        ELSE IF compilation(a) = StrBool(FALSE) /\ artist(a) = MIXED
        THEN IF starts = "True" THEN Ok(NamingTail(a))
             ELSE IF starts # "False" THEN Raise(starts)
             ELSE IF within = "True" THEN Ok(NamingTail(a))
             ELSE IF within # "False" THEN Raise(within)
             ELSE Ok("Expected single artist for non-compilation: "
                        \o Str(_unique_values([i \in DOMAIN songs |-> songs[i].artist])))
        ELSE Ok(NamingTail(a))

----------------------------------------------------------------------------
(* The libraries: image decoding (PIL) and bytes.hex() *)

\* Image bytes of the model: two JPEGs and a PNG of 600x600, JPEGs of 500x500 and
\* 1400x1400, and bytes that are no image.
JpegA == <<255, 216, 10>>
JpegB == <<255, 216, 11>>
JpegSmall == <<255, 216, 12>>
JpegLarge == <<255, 216, 13>>
PngA == <<137, 80, 10>>
Garbage == <<0, 1>>

\* Image.open(io.BytesIO(data)): the decoded size, or UnidentifiedImageError.
ImageOpen(data) ==
    IF data \in {JpegA, JpegB, PngA} THEN Ok([width |-> 600, height |-> 600])
    ELSE IF data = JpegSmall THEN Ok([width |-> 500, height |-> 500])
    ELSE IF data = JpegLarge THEN Ok([width |-> 1400, height |-> 1400])
    ELSE Raise("UnidentifiedImageError")

HexDigits == <<"0", "1", "2", "3", "4", "5", "6", "7", "8", "9", "a", "b", "c", "d", "e", "f">>

\* bytes.hex()
RECURSIVE Hex(_)
Hex(data) ==
    IF data = <<>> THEN <<>>
    ELSE <<HexDigits[(data[1] \div 16) + 1], HexDigits[(data[1] % 16) + 1]>> \o Hex(Tail(data))

\* AtomDataType(cover.imageformat), for the codes mutagen gives a cover.
AtomDataType(code) == IF code = 13 THEN "JPEG" ELSE IF code = 14 THEN "PNG" ELSE "IMPLICIT"

----------------------------------------------------------------------------
(* Cover inspection *)

\* _atom_to_enum(atom_data_type)
_atom_to_enum(atom_data_type) ==
    IF atom_data_type = "JPEG" THEN JPEG
    ELSE IF atom_data_type = "PNG" THEN PNG
    ELSE UNKNOWN

\* _parse_mime_type(mime_type)
_parse_mime_type(mime_type) ==
    LET lowered == Lower(mime_type)
    IN  IF Contains(lowered, <<"j", "p", "e", "g">>) THEN JPEG
        ELSE IF Contains(lowered, <<"p", "n", "g">>) THEN PNG
        ELSE UNKNOWN

\* _parse_covr_tag(audio): covr is audio.tags["covr"]; Ok(covers), or the exception of
\* the first cover that does not decode.
RECURSIVE _parse_covr_tag(_)
_parse_covr_tag(covr) ==
    IF covr = <<>> THEN Ok(<<>>)
    ELSE LET cover == covr[1]
             image_format == _atom_to_enum(AtomDataType(cover.imageformat))
             image == ImageOpen(cover.data)
             rest == _parse_covr_tag(Tail(covr))
         IN  IF image.exc # "" THEN Raise(image.exc)
             ELSE IF rest.exc # "" THEN Raise(rest.exc)
             ELSE Ok(<<Artwork(image_format, Hex(cover.data), image.val.width, image.val.height)>>
                        \o rest.val)

\* _parse_apic_tag(audio): cover is audio.tags['APIC:'].
_parse_apic_tag(cover) ==
    LET image_format == _parse_mime_type(cover.mime)
        image == ImageOpen(cover.data)
    IN  IF image.exc # "" THEN Raise(image.exc)
        ELSE Ok(<<Artwork(image_format, Hex(cover.data), image.val.width, image.val.height)>>)

----------------------------------------------------------------------------
(* Tag extraction *)

\* str(exception) of mutagen's HeaderNotFoundError
HeaderNotFoundMessage ==
    <<"c", "a", "n", "'", "t", " ", "s", "y", "n", "c", " ", "t", "o", " ",
      "M", "P", "E", "G", " ", "f", "r", "a", "m", "e">>

\* str(frame) of an ID3 text frame: its texts joined by U+0000.
FrameStr(frame) == Join(<<"\\u0000">>, frame)

IsDigits(s) == s # <<>> /\ \A i \in DOMAIN s : \E d \in DOMAIN Digits : Digits[d] = s[i]

\* int(s) for a string of decimal digits
RECURSIVE IntOf(_)
IntOf(s) ==
    IF s = <<>> THEN 0
    ELSE 10 * IntOf(SubSeq(s, 1, Len(s) - 1))
            + ((CHOOSE d \in DOMAIN Digits : Digits[d] = s[Len(s)]) - 1)

\* _parse_song(subdir, file): f is the file, with what mutagen.File makes of it
\* (f.load: "audio", "None" or "HeaderNotFoundError") and the tags of the audio, None
\* when the audio has no tag block.  Ok(song), or the exception that leaves the call.
_parse_song(f) ==
    LET tags == f.tags[1]
        has(key) == key \in DOMAIN tags
        atom(key) == IF has(key) THEN Some(tags[key][1]) ELSE None
        frame(o, key) == IF ~Truthy(o) /\ has(key) THEN Some(FrameStr(tags[key])) ELSE o
        cpil == IF has("cpil") THEN tags["cpil"] ELSE FALSE
        tcmp == FrameStr(tags["TCMP"])
        covers == IF has("covr") THEN _parse_covr_tag(tags["covr"])
                  ELSE IF has("APIC:") THEN _parse_apic_tag(tags["APIC:"])
                  ELSE Ok(<<>>)
    IN  IF f.load = "HeaderNotFoundError"
        THEN Ok([Song(f.name) EXCEPT !.error = Some(HeaderNotFoundMessage)])
        ELSE IF f.load = "None" THEN Raise("AssertionError: audio is not None")
        ELSE IF f.tags = None THEN Raise("TypeError")
        ELSE IF has("TCMP") /\ ~IsDigits(tcmp) THEN Raise("ValueError")
        ELSE IF covers.exc # "" THEN Raise(covers.exc)
        ELSE IF has("apID") /\ Len(tags["apID"]) # 1
        THEN Raise("AssertionError: len(apID) == 1")
        ELSE Ok([Song(f.name) EXCEPT
                    !.album_artist = frame(atom("aART"), "TPE2"),
                    !.artist = frame(frame(atom("\\xa9ART"), "TOPE"), "TPE1"),
                    !.album = frame(atom("\\xa9alb"), "TALB"),
                    !.sort_album_artist = frame(atom("soaa"), "TSO2"),
                    !.sort_artist = frame(atom("soar"), "TSOP"),
                    !.sort_album = frame(atom("soal"), "TSOA"),
                    !.compilation = IF has("TCMP") THEN IntOf(tcmp) # 0 ELSE cpil,
                    !.covers = covers.val,
                    !.purchased_by = atom("apID")])

----------------------------------------------------------------------------
(* The folder: the files a listing is drawn from *)

TheBand == <<"T", "h", "e", " ", "B", "a", "n", "d">>
Placebo == <<"P", "l", "a", "c", "e", "b", "o">>
PlaceboBowie == Placebo \o <<" ", "f", "e", "a", "t", ".", " ", "B", "o", "w", "i", "e">>
Queen == <<"Q", "u", "e", "e", "n">>
Mark == <<"M", "a", "r", "k">>
Karen == <<"K", "a", "r", "e", "n">>
MarkAndKaren == Mark \o <<" ", "&", " ">> \o Karen

M4a(stem) == stem \o <<".", "m", "4", "a">>
Mp3(stem) == stem \o <<".", "m", "p", "3">>

Mp4Cover(data, imageformat) == [data |-> data, imageformat |-> imageformat]

OneJpegA == "covr" :> <<Mp4Cover(JpegA, 13)>>

\* Atoms of a song by album artist aa and artist ar on album "X", with cover JpegA.
Atoms(aa, ar) ==
    ("aART" :> <<aa>>) @@ ("\\xa9ART" :> <<ar>>) @@ ("\\xa9alb" :> <<<<"X">>>>) @@ OneJpegA

\* Atoms of a song by Placebo on album "X", without a cover atom.
Bare == ("aART" :> <<Placebo>>) @@ ("\\xa9ART" :> <<Placebo>>) @@ ("\\xa9alb" :> <<<<"X">>>>)

Audio(file, tags) == [name |-> file, load |-> "audio", tags |-> Some(tags)]

Files ==
    << \* naming
       Audio(M4a(<<"0", "1">>), Atoms(TheBand, TheBand)),
       Audio(M4a(<<"0", "2">>), Atoms(Lower(TheBand), TheBand)),
       Audio(M4a(<<"0", "3">>), ("\\xa9ART" :> <<TheBand>>) @@ OneJpegA),
       Audio(M4a(<<"0", "4">>), Atoms(<<>>, TheBand)),
       Audio(M4a(<<"0", "5">>), Atoms(Placebo, Placebo)),
       Audio(M4a(<<"0", "6">>), Atoms(Placebo, PlaceboBowie)),
       Audio(M4a(<<"0", "7">>), Atoms(Placebo, Queen)),
       Audio(M4a(<<"0", "8">>), ("aART" :> <<Placebo>>) @@ OneJpegA),
       Audio(M4a(<<"0", "9">>), Atoms(MarkAndKaren, Mark)),
       Audio(M4a(<<"1", "0">>), Atoms(MarkAndKaren, Karen)),
       Audio(M4a(<<"1", "1">>), ("cpil" :> TRUE) @@ Atoms(VariousArtists, Queen)),
       Audio(Mp3(<<"1", "2">>),
             ("TPE2" :> <<Placebo>>) @@ ("TPE1" :> <<Placebo>>) @@ ("TALB" :> <<<<"Y">>>>)
                @@ ("TSOA" :> <<<<"y">>>>) @@ ("TCMP" :> <<<<"0">>>>)
                @@ ("APIC:" :> [mime |-> <<"i", "m", "a", "g", "e", "/", "J", "P", "E", "G">>,
                                data |-> JpegA])),
       \* artwork
       Audio(M4a(<<"2", "1">>), Bare),
       Audio(M4a(<<"2", "2">>), Bare @@ ("covr" :> <<Mp4Cover(JpegB, 13)>>)),
       Audio(M4a(<<"2", "3">>), Bare @@ ("covr" :> <<Mp4Cover(PngA, 14)>>)),
       Audio(M4a(<<"2", "4">>), Bare @@ ("covr" :> <<Mp4Cover(JpegSmall, 13)>>)),
       Audio(M4a(<<"2", "5">>), Bare @@ ("covr" :> <<Mp4Cover(JpegLarge, 13)>>)),
       Audio(M4a(<<"2", "6">>), Bare @@ ("covr" :> <<Mp4Cover(JpegA, 13), Mp4Cover(JpegB, 13)>>)),
       Audio(M4a(<<"2", "7">>), Bare @@ ("covr" :> <<Mp4Cover(JpegA, 14)>>)),
       Audio(M4a(<<"2", "8">>), Bare @@ ("covr" :> <<Mp4Cover(Garbage, 13)>>)),
       Audio(Mp3(<<"2", "9">>),
             ("TPE2" :> <<Placebo>>) @@ ("TPE1" :> <<Placebo>>) @@ ("TALB" :> <<<<"X">>>>)
                @@ ("APIC:" :> [mime |-> <<"i", "m", "a", "g", "e", "/", "j", "p", "g">>,
                                data |-> JpegA])),
       \* purchases
       Audio(M4a(<<"3", "1">>), Bare @@ OneJpegA @@ ("apID" :> <<Mark>>)),
       Audio(M4a(<<"3", "2">>), Bare @@ OneJpegA @@ ("apID" :> <<Karen>>)),
       Audio(M4a(<<"3", "3">>), Bare @@ OneJpegA @@ ("apID" :> <<Mark, Karen>>)),
       \* files that are no readable audio
       [name |-> <<".", "D", "S">>, load |-> "None", tags |-> None],
       [name |-> <<"b", ".", "p", "d", "f">>, load |-> "None", tags |-> None],
       [name |-> <<"n", ".", "t", "x", "t">>, load |-> "None", tags |-> None],
       [name |-> <<"v", ".", "m", "4", "v">>, load |-> "None", tags |-> None],
       [name |-> Mp3(<<"4", "1">>), load |-> "HeaderNotFoundError", tags |-> None],
       [name |-> M4a(<<"4", "2">>), load |-> "None", tags |-> None],
       [name |-> Mp3(<<"4", "3">>), load |-> "audio", tags |-> None] >>

\* The folder of the listing.
Subdir == <<"m", "/", "a", "r", "t", "/", "a", "l", "b">>

----------------------------------------------------------------------------
(* _parse_album and diagnose *)

\* The listings of a folder hold at most MaxFiles files.
MaxFiles == 3

Extension(s) == <<".">> \o s

UnsupportedPrefix ==
    <<"U", "n", "s", "u", "p", "p", "o", "r", "t", "e", "d", " ", "f", "i", "l", "e", " ",
      "t", "y", "p", "e", ":", " ">>

\* One turn of _parse_album's loop, for file f: "skip" (continue without a song), or
\* "add" with the song handed to album.add, or the exception of _parse_song.
LoopBody(subdir, f) ==
    LET file == f.name
        suffix == Lower(Suffix(file))
        stray == Song(PathJoin(subdir, file))
        parsed == _parse_song(f)
    IN  IF StartsWith(file, <<".">>) THEN [do |-> "skip"]
        ELSE IF suffix \in {Extension(<<"p", "d", "f">>)} THEN [do |-> "skip"]
        ELSE IF suffix \notin {Extension(<<"m", "4", "a">>), Extension(<<"m", "4", "p">>),
                                Extension(<<"m", "p", "3">>)}
        THEN [do |-> "add",
              song |-> [stray EXCEPT !.error = Some(UnsupportedPrefix \o song_file_type(stray))]]
        ELSE IF parsed.exc # "" THEN [do |-> "raise", exc |-> parsed.exc]
        ELSE [do |-> "add", song |-> parsed.val]

\* The loop's turn for each file of the folder.
Turns == [i \in DOMAIN Files |-> LoopBody(Subdir, Files[i])]

\* for file in sorted(files): the next file of the listing, f, follows the files done.
ParseFile ==
    /\ pc = "parse"
    /\ Len(listing) < MaxFiles
    /\ \E i \in DOMAIN Files :
        LET f == Files[i]
            turn == Turns[i]
        IN  /\ \A j \in DOMAIN listing : StrLess(listing[j], f.name)
            /\ listing' = Append(listing, f.name)
            /\ album' = IF turn.do = "add" THEN add(album, turn.song) ELSE album
            /\ raised' = IF turn.do = "raise" THEN turn.exc ELSE raised
            /\ pc' = IF turn.do = "raise" THEN "parse aborted" ELSE pc
    /\ UNCHANGED <<output_file, verbose, output, lastRead, values, result>>

\* The listing is exhausted: _parse_album returns the album.
ParseDone ==
    /\ pc = "parse"
    /\ pc' = "parsed"
    /\ UNCHANGED <<output_file, verbose, listing, album, raised, output, lastRead, values, result>>

\* The enumerations of a set, as sequences: the orders list(set) may have.
Orders(S) ==
    {p \in [1..Cardinality(S) -> S] : \A i, j \in 1..Cardinality(S) : p[i] = p[j] => i = j}

Header ==
    << "artist_folder", "album_folder", "compilation", "album_artist", "artist", "album",
       "sort_album_artist", "sort_artist", "sort_album", "purchased_by", "file_type",
       "artwork_size", "status", "file_message", "artwork_message", "naming_message" >>

\* _album_to_row(album), with buyers the order in which purchased_by is iterated:
\* Ok(row), or the exception of naming_message.
_album_to_row(a, buyers) ==
    LET files == file_message(a)
        artwork == artwork_message(a)
        naming == naming_message(a)
    IN  IF naming.exc # "" THEN Raise(naming.exc)
        ELSE Ok(<< Str(a.artist_folder), Str(a.album_folder), Str(compilation(a)),
                   Str(album_artist(a)), Str(artist(a)), Str(name(a)),
                   Str(sort_album_artist(a)), Str(sort_artist(a)), Str(sort_album(a)),
                   Str(Join(CommaSpace, buyers)), Str(file_type(a)), Str(artwork_size(a)),
                   IF ~(files # "" \/ artwork # "" \/ naming.val # "") THEN "OK" ELSE "",
                   files, artwork, naming.val >>)

\* k spaces
RECURSIVE Spaces(_)
Spaces(k) == IF k = 0 THEN "" ELSE " " \o Spaces(k - 1)

\* The paddings of __str__'s fields, the widest of which is 50.
Blank == [k \in 0..50 |-> Spaces(k)]

\* "{:n}".format(s): s padded with spaces to n characters.
Pad(s, n) == IF Len(s) >= n THEN s ELSE s \o Blank[n - Len(s)]

\* Album.__str__, with buyers the order in which purchased_by is iterated.
__str__(a, buyers) ==
    Pad(Str(a.artist_folder), 35) \o "| " \o Pad(Str(a.album_folder), 50) \o "| "
        \o Pad(Str(Join(CommaSpace, buyers)), 20) \o "| " \o Pad(artwork_message(a), 25) \o "| "
        \o Pad(Str(artwork_size(a)), 9) \o "| " \o Pad(Str(sort_album(a)), 1)

\* diagnose's turn for the album, with an output file: its row is written.
WriteRow ==
    /\ pc = "parsed"
    /\ output_file
    /\ \E buyers \in Orders(purchased_by(album)) :
        \E row \in {_album_to_row(album, buyers)} :
            /\ output' = IF row.exc = "" THEN Append(output, row.val) ELSE output
            /\ raised' = row.exc
            /\ pc' = IF row.exc = "" THEN "done" ELSE "report aborted"
    /\ album' = AfterPurchasedBy(album)
    /\ UNCHANGED <<output_file, verbose, listing, lastRead, values, result>>

\* diagnose's turn for the album, without an output file: it is printed, or passed over.
PrintAlbum ==
    /\ pc = "parsed"
    /\ ~output_file
    /\ IF artwork_message(album) = "" /\ sort_album(album) # MIXED /\ ~verbose
       THEN UNCHANGED <<output, album>>
       ELSE /\ \E buyers \in Orders(purchased_by(album)) :
                    output' = Append(output, __str__(album, buyers))
            /\ album' = AfterPurchasedBy(album)
    /\ pc' = "done"
    /\ UNCHANGED <<output_file, verbose, listing, raised, lastRead, values, result>>

NoRead == [prop |-> "none", value |-> <<>>]

Init ==
    /\ pc = "parse"
    /\ output_file \in BOOLEAN
    /\ verbose \in BOOLEAN
    /\ listing = <<>>
    /\ album = Album(ParentName(Subdir), PathName(Subdir))
    /\ raised = ""
    /\ output = IF output_file THEN <<Header>> ELSE <<>>
    /\ lastRead = NoRead
    /\ values = <<>>
    /\ result = None

Next == ParseFile \/ ParseDone \/ WriteRow \/ PrintAlbum

Spec == Init /\ [][Next]_vars

----------------------------------------------------------------------------
(* A client of the Album class: add and the derived properties, in any order *)

\* The client adds at most MaxAdds songs.
MaxAdds == 3

\* The songs the client adds: those _parse_album makes of these files.
ClientFiles ==
    {i \in DOMAIN Files :
        Files[i].name \in {M4a(<<"0", "5">>), M4a(<<"0", "8">>), M4a(<<"3", "1">>),
                           M4a(<<"3", "2">>), <<"n", ".", "t", "x", "t">>}}

Properties ==
    {"purchased_by", "album_artist", "artist", "name", "sort_album_artist", "sort_artist",
     "sort_album", "compilation", "file_type", "artwork_size", "file_message",
     "artwork_message", "naming_message"}

\* The value a read of property p of album a returns.
Read(p, a) ==
    CASE p = "purchased_by" -> purchased_by(a)
      [] p = "album_artist" -> album_artist(a)
      [] p = "artist" -> artist(a)
      [] p = "name" -> name(a)
      [] p = "sort_album_artist" -> sort_album_artist(a)
      [] p = "sort_artist" -> sort_artist(a)
      [] p = "sort_album" -> sort_album(a)
      [] p = "compilation" -> compilation(a)
      [] p = "file_type" -> file_type(a)
      [] p = "artwork_size" -> artwork_size(a)
      [] p = "file_message" -> file_message(a)
      [] p = "artwork_message" -> artwork_message(a)
      [] p = "naming_message" -> naming_message(a)

\* album.add(song)
ClientAdd ==
    /\ pc = "client"
    /\ Len(album.songs) + Len(album.erroneous) < MaxAdds
    /\ \E i \in ClientFiles : album' = add(album, Turns[i].song)
    /\ lastRead' = NoRead
    /\ UNCHANGED <<pc, output_file, verbose, listing, raised, output, values, result>>

\* A read of one derived property; the client keeps what it returned.
ClientRead ==
    /\ pc = "client"
    /\ \E p \in Properties :
        /\ lastRead' = [prop |-> p, value |-> Read(p, album)]
        /\ album' = IF p = "purchased_by" THEN AfterPurchasedBy(album) ELSE album
    /\ UNCHANGED <<pc, output_file, verbose, listing, raised, output, values, result>>

InitAlbum ==
    /\ pc = "client"
    /\ output_file = FALSE
    /\ verbose = FALSE
    /\ listing = <<>>
    /\ album = Album(ParentName(Subdir), PathName(Subdir))
    /\ raised = ""
    /\ output = <<>>
    /\ lastRead = NoRead
    /\ values = <<>>
    /\ result = None

NextAlbum == ClientAdd \/ ClientRead

SpecAlbum == InitAlbum /\ [][NextAlbum]_vars

----------------------------------------------------------------------------
(* _unique_value_or_mixed on its own *)

\* The reduction is applied to lists of at most MaxValues values.
MaxValues == 3

\* The values of the lists: None, "", and three strings.
ValueDomain == {None, Some(<<>>), Some(<<"a">>), Some(<<"A">>), Some(<<"b">>)}

ListsUpTo(n) == UNION {[1..k -> ValueDomain] : k \in 0..n}

\* The call returns.
Reduce ==
    /\ pc = "call"
    /\ result' = Some(_unique_value_or_mixed(values))
    /\ pc' = "returned"
    /\ UNCHANGED <<output_file, verbose, listing, album, raised, output, lastRead, values>>

InitUnique ==
    /\ pc = "call"
    /\ output_file = FALSE
    /\ verbose = FALSE
    /\ listing = <<>>
    /\ album = Album(ParentName(Subdir), PathName(Subdir))
    /\ raised = ""
    /\ output = <<>>
    /\ lastRead = NoRead
    /\ values \in ListsUpTo(MaxValues)
    /\ result = None

NextUnique == Reduce

SpecUnique == InitUnique /\ [][NextUnique]_vars

----------------------------------------------------------------------------
(* Claims C1 to C4 *)

\* _parse_album has returned the album.
Parsed == pc \in {"parsed", "done", "report aborted"}

\* C1: for an album built from a folder with no parsed song and no erroneous file,
\* file_message is "Empty album" and artwork_message and naming_message are empty.
C1_EmptyAlbum ==
    (Parsed /\ album.songs = <<>> /\ album.erroneous = <<>>)
        => /\ file_message(album) = "Empty album"
           /\ artwork_message(album) = ""
           /\ naming_message(album) = Ok("")

\* C2: whatever adds and reads came before, a read of a derived property returns the
\* value recomputed from the album's current songs and erroneous lists.
C2_ReadsAreFresh ==
    lastRead.prop # "none"
        => lastRead.value = Read(lastRead.prop, [album EXCEPT !._purchased_by = None])

\* The songs of album a that stand for file (a name of the listing).
StandFor(list, file) == {i \in DOMAIN list : PathName(list[i].file_name) = file}

Represented(a, file) ==
    Cardinality(StandFor(a.songs, file)) + Cardinality(StandFor(a.erroneous, file))

\* The files _parse_album passes over: hidden files and PDF booklets.
PassedOver(file) ==
    StartsWith(file, <<".">>) \/ Lower(Suffix(file)) = Extension(<<"p", "d", "f">>)

ErrorPlacement(a) ==
    /\ \A i \in DOMAIN a.songs : a.songs[i].error = None
    /\ \A i \in DOMAIN a.erroneous : a.erroneous[i].error # None
    /\ Range(a.songs) \cap Range(a.erroneous) = {}

\* C3 (as amended): after _parse_album has returned, songs and erroneous are disjoint,
\* every file of the listing that is neither hidden nor a PDF is represented by exactly
\* one Song, in exactly one of the two sequences, a hidden file or a PDF by none, and
\* a Song is in erroneous exactly when its error is set.
C3_Partition ==
    Parsed
        => /\ ErrorPlacement(album)
           /\ \A k \in DOMAIN listing :
                Represented(album, listing[k]) = IF PassedOver(listing[k]) THEN 0 ELSE 1

\* C3 (as claimed): every file of the listing is represented by exactly one Song.
C3_EveryFile ==
    Parsed
        => /\ ErrorPlacement(album)
           /\ \A k \in DOMAIN listing : Represented(album, listing[k]) = 1

\* A listing with a parsed song, an erroneous file and a file passed over has been read.
C3_Witness ==
    /\ pc = "parsed"
    /\ album.songs # <<>>
    /\ album.erroneous # <<>>
    /\ \E k \in DOMAIN listing : PassedOver(listing[k])

\* C4: extracting a file raises no fatal error, except for a purchaser-id atom that
\* holds a number of entries other than one: _parse_album is never left by another
\* exception (an unreadable container gives a Song with an error, an undecodable cover
\* an Artwork of 0x0, and the loop goes on).
C4_OnlyPurchaserIdIsFatal ==
    pc = "parse aborted" => raised = "AssertionError: len(apID) == 1"

----------------------------------------------------------------------------
(* Claims C5 to C8 *)

\* C5: whatever tag fields of the songs are absent, each of the three message chains
\* returns a string; none raises.
C5_ChainsNeverRaise ==
    Parsed => naming_message(album).exc = ""

\* Some message of album a is not empty (a chain that raises gives no message).
SomeMessage(a) ==
    \/ file_message(a) # ""
    \/ artwork_message(a) # ""
    \/ (naming_message(a).exc = "" /\ naming_message(a).val # "")

\* C6: the status is "OK" exactly when the three messages are empty, and diagnose
\* reports every album with a non-empty message: as a row with a status other than
\* "OK" when an output file is given, as a printed line when none is given, verbose
\* or not.
C6_EveryMessageReported ==
    pc = "done"
        => /\ output_file
                => /\ Len(output) = 2
                   /\ (output[2][13] = "OK") <=> ~SomeMessage(album)
           /\ (~output_file /\ SomeMessage(album)) => Len(output) = 1

\* The values of a list with None and "" taken as one absent value, "".
Grouped(vals) == {OrElse(vals[i], <<>>) : i \in DOMAIN vals}

\* C7: _unique_value_or_mixed returns "" for an empty list, the single value when all
\* values are equal, and MIXED for two or more distinct values, None and "" being one
\* group.
C7_UniqueOrMixed ==
    pc = "returned"
        => result = Some(IF values = <<>> THEN <<>>
                         ELSE IF Cardinality(Grouped(values)) = 1
                              THEN CHOOSE v \in Grouped(values) : TRUE
                              ELSE MIXED)

\* All covers of all songs of album a.
AllCovers(a) == UNION {Range(a.songs[i].covers) : i \in DOMAIN a.songs}

\* The artwork rules 1 to 9 in their declared order, each condition over the full
\* song set: the message of the first rule that holds.
FirstArtworkRule(a) ==
    LET songs == a.songs
        covers == AllCovers(a)
    IN  IF \A i \in DOMAIN songs : songs[i].covers = <<>> THEN "No artwork"
        ELSE IF \E i \in DOMAIN songs : songs[i].covers = <<>> THEN "Some artwork missing"
        ELSE IF \E i \in DOMAIN songs : Len(songs[i].covers) > 1 THEN "Multiple covers per file"
        ELSE IF \E c, d \in covers : c.contents # d.contents THEN "Multiple covers"
        ELSE IF \E c, d \in covers : c.image_format # d.image_format THEN "Multiple image formats"
        ELSE IF \E c \in covers : c.image_format = PNG THEN "PNG artwork"
        ELSE IF \E c \in covers : c.image_format = UNKNOWN THEN "Unknown artwork format"
        ELSE IF \E c \in covers : ~ \E size \in IMAGE_SIZES : size = <<c.width, c.height>>
        THEN "Bad artwork size"
        ELSE ""

\* Every song of album a has exactly one cover, a JPEG of 600x600.
OneJpeg600Each(a) ==
    \A i \in DOMAIN a.songs :
        /\ Len(a.songs[i].covers) = 1
        /\ a.songs[i].covers[1].image_format = JPEG
        /\ a.songs[i].covers[1].width = 600
        /\ a.songs[i].covers[1].height = 600

\* C8: for a parsed album with at least one song, artwork_message is the message of the
\* first of the rules 1 to 9 that holds over the full song set; two songs with one
\* JPEG 600x600 cover each of different content give "Multiple covers", songs that
\* all carry one identical JPEG 600x600 cover give "".
C8_FirstArtworkRule ==
    LET message == artwork_message(album)
    IN  (pc = "parsed" /\ album.songs # <<>>)
            => /\ message = FirstArtworkRule(album)
               /\ (/\ Len(album.songs) = 2
                   /\ OneJpeg600Each(album)
                   /\ album.songs[1].covers[1].contents # album.songs[2].covers[1].contents)
                    => message = "Multiple covers"
               /\ (/\ OneJpeg600Each(album)
                   /\ \A i, j \in DOMAIN album.songs :
                        album.songs[i].covers[1].contents = album.songs[j].covers[1].contents)
                    => message = ""

\* Two songs with one JPEG 600x600 cover each, of different content, have been parsed.
C8_Witness ==
    /\ pc = "parsed"
    /\ Len(album.songs) = 2
    /\ OneJpeg600Each(album)
    /\ album.songs[1].covers[1].contents # album.songs[2].covers[1].contents
    /\ artwork_message(album) = "Multiple covers"

----------------------------------------------------------------------------
(* Claims C9 and C10 *)

\* One of the naming rules 1 to 4 matches album a.
Rules1To4(a) ==
    \/ compilation(a) = MIXED
    \/ compilation(a) = StrBool(TRUE) /\ album_artist(a) # VariousArtists
    \/ compilation(a) = StrBool(TRUE) /\ len(a) > 1 /\ artist(a) # MIXED
    \/ compilation(a) = StrBool(FALSE) /\ album_artist(a) = VariousArtists

\* The album-artist values of the songs differ only by letter case: they are strings,
\* at least two of them distinct, all equal once lower-cased.
DiffersByCaseOnly(a) ==
    /\ \A i \in DOMAIN a.songs : a.songs[i].album_artist # None
    /\ \E i, j \in DOMAIN a.songs : a.songs[i].album_artist # a.songs[j].album_artist
    /\ \A i, j \in DOMAIN a.songs :
            Lower(a.songs[i].album_artist[1]) = Lower(a.songs[j].album_artist[1])

CaseOnlyMessage(a) ==
    "Artist differs by case only: "
        \o Str(_unique_values([i \in DOMAIN a.songs |-> a.songs[i].album_artist]))

\* C9: when the naming rules 1 to 4 do not match, naming_message is "Artist differs by
\* case only: " and the distinct album-artist values exactly when the songs'
\* album-artist values differ only by letter case; "The Band" and "the band" give
\* "Artist differs by case only: The Band, the band".
C9_CaseOnly ==
    (Parsed /\ album.songs # <<>> /\ ~Rules1To4(album))
        => /\ (naming_message(album) = Ok(CaseOnlyMessage(album))) <=> DiffersByCaseOnly(album)
           /\ (/\ Len(album.songs) = 2
               /\ album.songs[1].album_artist = Some(TheBand)
               /\ album.songs[2].album_artist = Some(Lower(TheBand)))
                => naming_message(album) = Ok("Artist differs by case only: The Band, the band")

\* One of the naming rules 5 and 6 matches album a.
Rules5To6(a) ==
    \/ album_artist(a) = MIXED /\ album_artist_lower(a) # MIXED
    \/ artist(a) = MIXED /\ artist_lower(a) # MIXED

\* Every song's artist starts with the album-artist string, or every song's artist is
\* a substring of it.
ArtistsWithinAlbumArtist(a) ==
    \/ \A i \in DOMAIN a.songs :
            a.songs[i].artist # None /\ StartsWith(a.songs[i].artist[1], album_artist(a))
    \/ \A i \in DOMAIN a.songs :
            a.songs[i].artist # None /\ Contains(album_artist(a), a.songs[i].artist[1])

\* C10: for a non-compilation album with MIXED artist that the rules 1 to 6 do not
\* match, naming_message is "Expected single artist for non-compilation: " and the
\* distinct artists, unless every song's artist starts with, or every song's artist
\* is within, the album artist: then the chain goes on with the rules 8 to 13.
C10_SingleArtist ==
    (/\ Parsed
     /\ album.songs # <<>>
     /\ compilation(album) = StrBool(FALSE)
     /\ artist(album) = MIXED
     /\ ~Rules1To4(album)
     /\ ~Rules5To6(album))
        => naming_message(album) =
                IF ArtistsWithinAlbumArtist(album)
                THEN Ok(NamingTail(album))
                ELSE Ok("Expected single artist for non-compilation: "
                        \o Str(_unique_values([i \in DOMAIN album.songs |-> album.songs[i].artist])))

----------------------------------------------------------------------------
(* C11 *)

\* Covers of equal content have equal width and height.
EqualContentEqualSize(a) ==
    \A c, d \in AllCovers(a) :
        c.contents = d.contents => c.width = d.width /\ c.height = d.height

\* The "{width}x{height}" strings of the canonical sizes
CanonicalSizes == {"600x600", "1400x1400"}

\* C11: for a parsed album with at least one song in which covers of equal content have
\* equal width and height, an empty artwork_message comes with an artwork_size that is
\* neither empty nor MIXED and is "600x600" or "1400x1400"; put the other way round, an
\* artwork_size that is empty, MIXED or not canonical comes with a non-empty message.
C11_CleanArtworkHasCanonicalSize ==
    (pc = "parsed" /\ album.songs # <<>> /\ EqualContentEqualSize(album))
        => LET size == artwork_size(album)
           IN  /\ artwork_message(album) = ""
                    => size # <<>> /\ size # MIXED /\ Str(size) \in CanonicalSizes
               /\ (size = <<>> \/ size = MIXED \/ Str(size) \notin CanonicalSizes)
                    => artwork_message(album) # ""

\* An album of several songs that share one canonical cover: no message, one size.
C11_Witness ==
    /\ pc = "parsed"
    /\ Len(album.songs) >= 2
    /\ EqualContentEqualSize(album)
    /\ artwork_message(album) = ""
    /\ Str(artwork_size(album)) = "600x600"

====
